---- MODULE Spec2Model ----
(***************************************************************************)
(* Model of the HTTP/SSE agent service of src/src/index.ts: the two routes *)
(* (GET /query, POST /), the streaming orchestrator handleQueryMain, the   *)
(* SSE frame writer sseEvent and the single shared TokenMemory; and of the  *)
(* two tool adapters ReminderTool (src/src/index.ts) and                   *)
(* FlightCostLookupTool (src/unnamed/part_000).                            *)
(*                                                                         *)
(* The BeeAgent runtime, the chat model and Express are external           *)
(* collaborators.  The agent is modelled by what index.ts can observe of   *)
(* it: the events it emits to the subscribed handlers, the messages it     *)
(* adds to the memory object it was given, and whether its run resolves or *)
(* rejects.  Express is modelled by the documented behaviour of            *)
(* res.setHeader / res.status / res.write / res.json / res.end.           *)
(*                                                                         *)
(* Every action is one synchronous block of the code, i.e. the code that   *)
(* runs between two awaits.  Console logging is not read back by the       *)
(* program and is not part of the state.  Strings built by concatenation   *)
(* are sequences of their pieces.                                          *)
(***************************************************************************)
EXTENDS Integers, Sequences, FiniteSets, TLC

\* ---------------------------------------------------------------- bounds
NumReqs == 2      \* HTTP requests the server receives
MaxEvents == 2    \* events the agent runs emit, all requests together
MaxMsgs == 1      \* messages one agent run adds to the memory it was given
NumCalls == 2     \* invocations of ReminderTool._run

Reqs == 1..NumReqs
Calls == 1..NumCalls

\* ------------------------------------------------------------- constants
ASSISTANT_RESPONSE == "thread.message.delta"
THINKING_STEP == "thread.run.step.delta"
TOOL_CALL == "thread.run.step.delta"
TOOL_RESPONSE == "thread.run.step.delta"

\* Inputs.  NoQ stands for an absent ?q= parameter, "" for an empty one.
NoQ == "<undefined>"
QueryParams == {NoQ, "", "q"}
Msg(role, content) == [role |-> role, content |-> content]
\* Request bodies of POST /: messages absent, an empty list, one message.
NoMessages == "<undefined>"
Bodies == {NoMessages, <<>>, <<Msg("user", "q")>>}
\* Payload text of update events and the final result text.
Vals == {"x"}
\* Keys of the agent's update events: the four the handler formats, and
\* final_answer, which the agent also reports as an update.
StepKeys == {"thought", "tool_name", "tool_input", "tool_output"}
UpdateKeys == StepKeys \cup {"final_answer"}

VARIABLES
  onUnhandled,  \* what the build does with a rejected route handler
  alive,        \* the node process is running
  pc,           \* per request: where its route handler is
  route,        \* per request: "none", "GET" or "POST"
  input,        \* per request: req.query.q (GET) or req.body.messages (POST)
  query,        \* per request: the text handed to handleQueryMain
  outcome,      \* per request: how handleQueryMain settled
  res,          \* per request: the Express response object
  events,       \* per request: the events its handlers have received
  memory,       \* the shared TokenMemory: owners of its messages, in order
  nAdded,       \* per request: messages its agent run has added to memory
  \* ReminderTool
  store,        \* the reminders table: id -> snoozed_count
  nextId,       \* the table's next autoincrement id
  tpc,          \* per invocation of _run: what it awaits, or how it ended
  instr,        \* per invocation: input.naturalLanguageInput, as characters
  total,        \* per invocation: totalReminders, NoTotal while unread
  lastOut,      \* per invocation: the last model output it received
  validId,      \* per invocation: validId of the parsed validation output
  stmt,         \* per invocation: the parsed generated statement
  tresult,      \* per invocation: the output returned or the error thrown
  queries,      \* per invocation: the queries it has sent to the table
  llmCalls,     \* per invocation: chat-model calls it has made
  \* FlightCostLookupTool
  fpc,          \* where the invocation of _run is
  finput,       \* its input
  gets,         \* the URLs axios.get was called with, in order
  fresult       \* the output returned or the error thrown

httpVars == <<onUnhandled, alive, pc, route, input, query, outcome, res, events,
              memory, nAdded>>

toolVars == <<store, nextId, tpc, instr, total, lastOut, validId, stmt,
              tresult, queries, llmCalls>>

flightVars == <<fpc, finput, gets, fresult>>

vars == <<httpVars, toolVars, flightVars>>

\* ------------------------------------------------------ response object
FreshRes ==
  [state |-> "none", headersSent |-> FALSE, statusCode |-> 200,
   sentStatus |-> 0, contentType |-> "", cacheControl |-> "",
   connection |-> "", wire |-> <<>>]

\* res.setHeader x3 of both routes.
SetStreamHeaders(rs) ==
  [rs EXCEPT !.state = "open", !.contentType = "text/event-stream",
             !.cacheControl = "no-cache", !.connection = "keep-alive"]

\* res.write(chunk): the first write sends the status line and headers.
ResWrite(rs, chunk) ==
  [rs EXCEPT !.headersSent = TRUE,
             !.sentStatus = IF rs.headersSent THEN @ ELSE rs.statusCode,
             !.wire = Append(@, chunk)]

\* res.status(code): sets the field; it reaches the client only if the
\* headers are still unsent.
ResStatus(rs, code) == [rs EXCEPT !.statusCode = code]

\* res.end()
ResEnd(rs) == [rs EXCEPT !.state = "ended"]

\* res.json(obj) sets Content-Type (charset appended to an existing one),
\* which throws ERR_HTTP_HEADERS_SENT once the headers are sent.
ResJsonThrows(rs) == rs.headersSent

JsonChunk(msg) == [kind |-> "json", object |-> "", content |-> <<"error", msg>>]

ResJson(rs, msg) ==
  [rs EXCEPT !.headersSent = TRUE, !.sentStatus = rs.statusCode,
             !.contentType = IF @ = "" THEN "application/json; charset=utf-8"
                             ELSE @ \o "; charset=utf-8",
             !.wire = Append(@, JsonChunk(msg)), !.state = "ended"]

\* The `data: [DONE]\n\n` frame.
DoneChunk == [kind |-> "done", object |-> "", content |-> <<"[DONE]">>]

\* sseEvent(targetStr, res, messageType).  The frame's id, thread_id and
\* created fields are fresh values no code reads; they are left out.
Frame(targetStr, messageType) ==
  [kind |-> "data", object |-> messageType, content |-> targetStr]

\* A writer that puts the frame in front of what was written.
sseEventFront(targetStr, rs, messageType) ==
  [ResWrite(rs, Frame(targetStr, messageType))
     EXCEPT !.wire = <<Frame(targetStr, messageType)>> \o rs.wire]

sseEvent(targetStr, rs, messageType) ==
  ResWrite(rs, Frame(targetStr, messageType))

\* Express 5's default error handler on a response whose headers are unsent:
\* a 500 page replaces whatever the handler had prepared.
ErrorHandlerRes(rs) ==
  [rs EXCEPT !.state = "ended", !.headersSent = TRUE, !.statusCode = 500,
             !.sentStatus = 500, !.contentType = "text/html; charset=utf-8",
             !.wire = <<[kind |-> "html", object |-> "",
                         content |-> <<"Internal Server Error">>]>>]

\* ------------------------------------------------ orchestrator handlers
\* An error handler that also reports the error to the client.
OnErrorFrame(rs) == sseEvent(<<"error">>, rs, THINKING_STEP)

\* emitter.on("error"): console.log only.
OnError(rs) == rs

\* emitter.on("retry"): console.log only.
OnRetry(rs) == rs

\* emitter.on("partialUpdate"): process.stdout.write only.
OnPartialUpdate(rs, value) == rs

\* The three-backtick code fence of the tool templates.
Fence == "<fence>"

ThoughtText(value) == <<"<h3>Agent is thinking: </h3> <br/>", value, "\n\n <br/>">>
ToolNameText(value) == <<"<h3>Tool <i>", value, "</i> is being invoked.</h3> \n\n">>
ToolInputText(value) ==
  <<"<h3>Tool call initialized with input:</h3> \n",
    "\n-------------------------------------------\n", Fence, value, Fence, "\n\n",
    "\n-------------------------------------------\n">>
ToolOutputText(value) ==
  <<"<h3>Tool returned output:</h3> \n",
    "\n-------------------------------------------\n", Fence, value, Fence, "\n\n",
    "\n-------------------------------------------\n">>

\* An update handler without the tool_input branch.
OnUpdateNoToolInput(rs, key, value) ==
  LET r1 == IF key = "thought"
              THEN sseEvent(ThoughtText(value), rs, THINKING_STEP) ELSE rs
      r2 == IF key = "tool_name"
              THEN sseEvent(ToolNameText(value), r1, TOOL_CALL) ELSE r1
      r4 == IF key = "tool_output"
              THEN sseEvent(ToolOutputText(value), r2, TOOL_RESPONSE) ELSE r2
  IN r4

\* emitter.on("update"): four independent ifs, run in this order; the body
\* has no await, so it runs to completion when the event is emitted.
OnUpdate(rs, key, value) ==
  LET r1 == IF key = "thought"
              THEN sseEvent(ThoughtText(value), rs, THINKING_STEP) ELSE rs
      r2 == IF key = "tool_name"
              THEN sseEvent(ToolNameText(value), r1, TOOL_CALL) ELSE r1
      r3 == IF key = "tool_input"
              THEN sseEvent(ToolInputText(value), r2, THINKING_STEP) ELSE r2
      r4 == IF key = "tool_output"
              THEN sseEvent(ToolOutputText(value), r3, TOOL_RESPONSE) ELSE r3
  IN r4

\* A reset that leaves the messages in place.
MemoryResetNone(mem) == mem

\* A reset that keeps the newest message.
MemoryResetKeepLast(mem) == IF mem = <<>> THEN <<>> ELSE <<mem[Len(mem)]>>

\* memory.reset()
MemoryReset(mem) == <<>>

\* The agent adds a message to the memory object it was constructed with;
\* a message is represented by the request whose run added it.
MemoryAdd(mem, r) == Append(mem, r)

\* ------------------------------------------------------ route handlers
\* A test that only catches the absent parameter.
FalsyUndefinedOnly(q) == q = NoQ

\* !userQuery
Falsy(q) == q = NoQ \/ q = ""

\* messages.reduce((acc, cur) => acc + cur.role + ": " + cur.content + "\n", "")
RECURSIVE Flatten(_)
Flatten(messages) ==
  IF messages = <<>> THEN <<>>
  ELSE <<Head(messages).role, ": ", Head(messages).content, "\n">>
         \o Flatten(Tail(messages))

\* A route that writes [DONE] before the final answer.
GetQueryResolvedDoneFirst(rs, result) ==
  ResEnd(sseEvent(<<result>>, ResWrite(rs, DoneChunk), ASSISTANT_RESPONSE))

\* GET /query after handleQueryMain resolved with result.
GetQueryResolved(rs, result) ==
  ResEnd(ResWrite(sseEvent(<<result>>, rs, ASSISTANT_RESPONSE), DoneChunk))

\* POST / after handleQueryMain resolved with result.
PostRootResolved(rs, result) ==
  ResEnd(ResWrite(sseEvent(<<"<h2> Final Response: </h2> <br/>", result>>,
                           rs, ASSISTANT_RESPONSE), DoneChunk))

\* The route handler's promise rejected with nobody to catch it in the
\* application.  index.ts installs no error middleware and no
\* unhandledRejection listener, so what follows is the build's choice:
\* under Express 4 the rejection is unhandled and Node 20 ends the process,
\* closing every open connection ("exit"); under Express 5 the router hands
\* it to the default error handler, which destroys the socket when the
\* headers are sent and answers 500 otherwise ("errorHandler").
\* rs is the response of request r as the handler left it.
Unhandled(r, rs) ==
  /\ alive' = (onUnhandled # "exit")
  /\ res' = [s \in Reqs |->
       IF s = r
         THEN IF onUnhandled = "exit" \/ rs.headersSent
                THEN [rs EXCEPT !.state = "destroyed"]
                ELSE ErrorHandlerRes(rs)
       ELSE IF onUnhandled = "exit" /\ res[s].state = "open"
         THEN [res[s] EXCEPT !.state = "destroyed"]
       ELSE res[s]]
  /\ pc' = [s \in Reqs |->
       IF s = r THEN "failed"
       ELSE IF onUnhandled = "exit" /\ pc[s] \in {"llm", "running"}
         THEN "killed"
       ELSE pc[s]]

\* The catch block of GET /query: res.status(500).json({error}).
GetQueryCatch(r) ==
  LET rs == ResStatus(res[r], 500) IN
  IF ResJsonThrows(rs)
    THEN Unhandled(r, rs)
    ELSE /\ res' = [res EXCEPT ![r] = ResJson(rs, "error.toString()")]
         /\ pc' = [pc EXCEPT ![r] = "done"]
         /\ UNCHANGED alive

\* POST / has no try/catch: a rejection of handleQueryMain rejects the handler.
PostRootCatch(r) == Unhandled(r, res[r])

RouteCatch(r) == IF route[r] = "GET" THEN GetQueryCatch(r) ELSE PostRootCatch(r)

\* ------------------------------------------------------- ReminderTool
\* private maxReminders = 10
maxReminders == 10

\* The outputs _run returns; the warning sign that opens two of them in
\* the source is left out of the text here.
NoInputText == "No input was found, nothing was done."
TooManyText ==
  "You have too many reminders... As per the limit you set, try to complete other tasks first!"
ConfirmationText == "finalResponse.getTextContent().trim()"
Outputs == {NoInputText, TooManyText, ConfirmationText}

\* Instruction texts, as characters: "", "Add", "new", "delAdd".
Instructions ==
  {<<>>, <<"A", "d", "d">>, <<"n", "e", "w">>, <<"d", "e", "l", "A", "d", "d">>}

\* String.prototype.toLowerCase on the characters in use.
LowerChar(c) == CASE c = "A" -> "a" [] c = "D" -> "d" [] OTHER -> c

toLowerCase(text) == [i \in DOMAIN text |-> LowerChar(text[i])]

\* String.prototype.includes
includes(text, sub) ==
  \E i \in 0..(Len(text) - Len(sub)) : SubSeq(text, i + 1, i + Len(sub)) = sub

\* A test that forgets toLowerCase.
MentionsAddCaseSensitive(text) == includes(text, <<"a", "d", "d">>)

\* naturalLanguageTask.toLowerCase().includes("add")
MentionsAdd(text) == includes(toLowerCase(text), <<"a", "d", "d">>)

\* A test that lets an empty instruction through.
IsEmptyInputNever(text) == FALSE

\* naturalLanguageTask === ""
IsEmptyInput(text) == text = <<>>

\* A capacity test that is off by one.
AtCapacityAbove(n) == n > maxReminders

\* totalReminders >= this.maxReminders
AtCapacity(n) == n >= maxReminders

\* Model output is text over four tokens: the braces, "v" for text that is
\* valid inside a JSON object, "x" for any other text.
\* The regex /\{(?:[^{}]|\{[^{}]*\})*\}/s from position j on, after the
\* opening brace; inner says that a nested brace is open.  The result is
\* the position of the closing brace, 0 when there is no match.
RECURSIVE RegexScan(_, _, _)
RegexScan(text, j, inner) ==
  IF j > Len(text) THEN 0
  ELSE IF inner
    THEN IF text[j] = "}" THEN RegexScan(text, j + 1, FALSE)
         ELSE IF text[j] = "{" THEN 0
         ELSE RegexScan(text, j + 1, TRUE)
    ELSE IF text[j] = "}" THEN j
         ELSE IF text[j] = "{" THEN RegexScan(text, j + 1, TRUE)
         ELSE RegexScan(text, j + 1, FALSE)

\* match ? match[0] : "" : the leftmost match of the regex.
ExtractJson(text) ==
  LET starts == {i \in DOMAIN text : text[i] = "{" /\ RegexScan(text, i + 1, FALSE) # 0}
  IN IF starts = {} THEN <<>>
     ELSE LET i == CHOOSE k \in starts : \A m \in starts : k <= m
          IN SubSeq(text, i, RegexScan(text, i + 1, FALSE))

\* A parser that accepts anything.
JsonParseThrowsNever(extracted) == FALSE

\* JSON.parse(extracted) throws a SyntaxError.
JsonParseThrows(extracted) ==
  extracted = <<>> \/ \E i \in DOMAIN extracted : extracted[i] = "x"

\* Model outputs: a JSON object alone, one with text before it, one with a
\* nested object, no brace at all, an unclosed brace, braces around text
\* that is no JSON.
GoodTexts ==
  {<<"{", "v", "}">>, <<"x", "{", "v", "}">>, <<"{", "v", "{", "v", "}", "}">>}
BadTexts == {<<"x">>, <<"{", "v">>, <<"{", "x", "}">>}

NoId == 0
NoTotal == -1
NoOut == [stage |-> "none", text |-> <<>>]
NoStmt == [kind |-> "none", id |-> NoId]

\* The statements of exampleQueries, and one the table rejects.
Stmts ==
  {[kind |-> "insert", id |-> NoId], [kind |-> "delete", id |-> 1],
   [kind |-> "snooze", id |-> 1], [kind |-> "select", id |-> NoId],
   [kind |-> "invalid", id |-> NoId]}

\* What the validation model may answer: {validId, notes} in some text.
ValidationOutputs ==
  [text : GoodTexts, validId : {NoId, 1}] \cup [text : BadTexts, validId : {NoId}]

\* What the generation model may answer: {query, params} in some text.
GenerationOutputs ==
  [text : GoodTexts, stmt : Stmts] \cup [text : BadTexts, stmt : {NoStmt}]

\* this.db.all(query, params) for a generated statement.
Execute(st, tbl, next) ==
  CASE st.kind = "insert" ->
         [store |-> [i \in DOMAIN tbl \cup {next} |-> IF i \in DOMAIN tbl THEN tbl[i] ELSE 0],
          nextId |-> next + 1]
    [] st.kind = "delete" ->
         [store |-> [i \in DOMAIN tbl \ {st.id} |-> tbl[i]], nextId |-> next]
    [] st.kind = "snooze" ->
         [store |-> [i \in DOMAIN tbl |-> IF i = st.id THEN tbl[i] + 1 ELSE tbl[i]],
          nextId |-> next]
    [] OTHER -> [store |-> tbl, nextId |-> next]

Table(n) == [i \in 1..n |-> 0]

ToolsIdle ==
  /\ store = Table(0)
  /\ nextId = 1
  /\ tpc = [t \in Calls |-> "idle"]
  /\ instr = [t \in Calls |-> <<>>]
  /\ total = [t \in Calls |-> NoTotal]
  /\ lastOut = [t \in Calls |-> NoOut]
  /\ validId = [t \in Calls |-> NoId]
  /\ stmt = [t \in Calls |-> NoStmt]
  /\ tresult = [t \in Calls |-> "none"]
  /\ queries = [t \in Calls |-> <<>>]
  /\ llmCalls = [t \in Calls |-> 0]

FlightIdle ==
  /\ fpc = "idle"
  /\ finput = <<>>
  /\ gets = <<>>
  /\ fresult = [kind |-> "none", value |-> ""]

\* ------------------------------------------------------------- actions
\* The server after app.listen, with no request received yet.
ServerIdle ==
  /\ onUnhandled \in {"exit", "errorHandler"}
  /\ alive = TRUE
  /\ pc = [r \in Reqs |-> "idle"]
  /\ route = [r \in Reqs |-> "none"]
  /\ input = [r \in Reqs |-> NoQ]
  /\ query = [r \in Reqs |-> <<>>]
  /\ outcome = [r \in Reqs |-> "none"]
  /\ res = [r \in Reqs |-> FreshRes]
  /\ events = [r \in Reqs |-> <<>>]
  /\ memory = <<>>
  /\ nAdded = [r \in Reqs |-> 0]

Init == ServerIdle /\ ToolsIdle /\ FlightIdle

\* app.get("/query") up to its first await (ChatModel.fromName inside
\* handleQueryMain), or to its return on a missing q.
GetQuery(r, q) ==
  /\ alive /\ pc[r] = "idle"
  /\ route' = [route EXCEPT ![r] = "GET"]
  /\ input' = [input EXCEPT ![r] = q]
  /\ LET rs == SetStreamHeaders(res[r]) IN
     IF Falsy(q)
       THEN /\ res' = [res EXCEPT ![r] =
                 ResJson(ResStatus(rs, 400), "Missing query parameter \"q\"")]
            /\ pc' = [pc EXCEPT ![r] = "done"]
            /\ outcome' = [outcome EXCEPT ![r] = "invalid"]
            /\ UNCHANGED query
       ELSE /\ res' = [res EXCEPT ![r] = rs]
            /\ pc' = [pc EXCEPT ![r] = "llm"]
            /\ query' = [query EXCEPT ![r] = <<q>>]
            /\ UNCHANGED outcome
  /\ UNCHANGED <<toolVars, flightVars, onUnhandled, alive, events, memory, nAdded>>

\* app.post("/") up to its first await, or to the TypeError that
\* messages[messages.length - 1] throws when the body has no messages.
PostRoot(r, body) ==
  /\ alive /\ pc[r] = "idle"
  /\ route' = [route EXCEPT ![r] = "POST"]
  /\ input' = [input EXCEPT ![r] = body]
  /\ IF body = NoMessages
       THEN /\ Unhandled(r, res[r])
            /\ outcome' = [outcome EXCEPT ![r] = "threw"]
            /\ UNCHANGED query
       ELSE /\ res' = [res EXCEPT ![r] = SetStreamHeaders(res[r])]
            /\ pc' = [pc EXCEPT ![r] = "llm"]
            /\ query' = [query EXCEPT ![r] = Flatten(body)]
            /\ UNCHANGED <<outcome, alive>>
  /\ UNCHANGED <<toolVars, flightVars, onUnhandled, events, memory, nAdded>>

\* handleQueryMain after ChatModel.fromName resolved: memory.reset(),
\* new BeeAgent({llm, memory, tools}), agent.run(...).observe(...), up to
\* the await of the run.
StartRun(r) ==
  /\ alive /\ pc[r] = "llm"
  /\ memory' = MemoryReset(memory)
  /\ pc' = [pc EXCEPT ![r] = "running"]
  /\ UNCHANGED <<toolVars, flightVars, onUnhandled, alive, route, input, query, outcome, res, events, nAdded>>

\* ChatModel.fromName rejects: handleQueryMain rejects before any reset.
LlmReject(r) ==
  /\ alive /\ pc[r] = "llm"
  /\ outcome' = [outcome EXCEPT ![r] = "noLlm"]
  /\ RouteCatch(r)
  /\ UNCHANGED <<toolVars, flightVars, onUnhandled, route, input, query, events, memory, nAdded>>

RECURSIVE Total(_, _)
Total(f, S) ==
  IF S = {} THEN 0
  ELSE LET s == CHOOSE x \in S : TRUE IN Len(f[s]) + Total(f, S \ {s})

\* The agent of request r emits ev to the handlers observe() registered.
Receive(r, ev) ==
  /\ alive /\ pc[r] = "running"
  /\ Total(events, Reqs) < MaxEvents
  /\ events' = [events EXCEPT ![r] = Append(@, ev)]

\* One response object that every run's handlers write to.
HandlerResShared(r) == 1

\* The res that the handlers registered by handleQueryMain(query, res)
\* close over: the response of the request that made the call.
HandlerRes(r) == r

\* The agent emits `update`.
AgentUpdate(r, key, value) ==
  /\ Receive(r, [type |-> "update", key |-> key, value |-> value])
  /\ res' = [res EXCEPT ![HandlerRes(r)] = OnUpdate(@, key, value)]
  /\ UNCHANGED <<toolVars, flightVars, onUnhandled, alive, pc, route, input, query, outcome, memory, nAdded>>

\* The agent emits `error`.
AgentError(r) ==
  /\ Receive(r, [type |-> "error", key |-> "", value |-> ""])
  /\ res' = [res EXCEPT ![r] = OnError(@)]
  /\ UNCHANGED <<toolVars, flightVars, onUnhandled, alive, pc, route, input, query, outcome, memory, nAdded>>

\* The agent emits `retry`.
AgentRetry(r) ==
  /\ Receive(r, [type |-> "retry", key |-> "", value |-> ""])
  /\ res' = [res EXCEPT ![r] = OnRetry(@)]
  /\ UNCHANGED <<toolVars, flightVars, onUnhandled, alive, pc, route, input, query, outcome, memory, nAdded>>

\* The agent emits `partialUpdate`.
AgentPartialUpdate(r, value) ==
  /\ Receive(r, [type |-> "partialUpdate", key |-> "", value |-> value])
  /\ res' = [res EXCEPT ![r] = OnPartialUpdate(@, value)]
  /\ UNCHANGED <<toolVars, flightVars, onUnhandled, alive, pc, route, input, query, outcome, memory, nAdded>>

\* The running agent adds a message to the memory it was constructed with.
AgentAddMessage(r) ==
  /\ alive /\ pc[r] = "running"
  /\ nAdded[r] < MaxMsgs
  /\ memory' = MemoryAdd(memory, r)
  /\ nAdded' = [nAdded EXCEPT ![r] = @ + 1]
  /\ UNCHANGED <<toolVars, flightVars, onUnhandled, alive, pc, route, input, query, outcome, res, events>>

\* The run resolves: handleQueryMain returns response.result.text and the
\* route writes the final frame, the [DONE] frame and ends the response.
RunResolve(r, result) ==
  /\ alive /\ pc[r] = "running"
  /\ outcome' = [outcome EXCEPT ![r] = "resolved"]
  /\ res' = [res EXCEPT ![r] = IF route[r] = "GET"
                                 THEN GetQueryResolved(@, result)
                                 ELSE PostRootResolved(@, result)]
  /\ pc' = [pc EXCEPT ![r] = "done"]
  /\ UNCHANGED <<toolVars, flightVars, onUnhandled, alive, route, input, query, events, memory, nAdded>>

\* The run rejects (budget exhausted, tool error, network failure).
RunReject(r) ==
  /\ alive /\ pc[r] = "running"
  /\ outcome' = [outcome EXCEPT ![r] = "rejected"]
  /\ RouteCatch(r)
  /\ UNCHANGED <<toolVars, flightVars, onUnhandled, route, input, query, events, memory, nAdded>>

Next ==
  \/ \E r \in Reqs, q \in QueryParams : GetQuery(r, q)
  \/ \E r \in Reqs, body \in Bodies : PostRoot(r, body)
  \/ \E r \in Reqs : StartRun(r)
  \/ \E r \in Reqs : LlmReject(r)
  \/ \E r \in Reqs, key \in UpdateKeys, value \in Vals : AgentUpdate(r, key, value)
  \/ \E r \in Reqs : AgentError(r)
  \/ \E r \in Reqs : AgentRetry(r)
  \/ \E r \in Reqs, value \in Vals : AgentPartialUpdate(r, value)
  \/ \E r \in Reqs : AgentAddMessage(r)
  \/ \E r \in Reqs, result \in Vals : RunResolve(r, result)
  \/ \E r \in Reqs : RunReject(r)

Spec == Init /\ [][Next]_vars

\* The same server when the client sends a request only after every
\* earlier one has completed: no two handlers are in flight together.
Quiet == \A s \in Reqs : pc[s] \notin {"llm", "running"}

SeqGetQuery(r, q) == Quiet /\ GetQuery(r, q)

SeqPostRoot(r, body) == Quiet /\ PostRoot(r, body)

NextSeq ==
  \/ \E r \in Reqs, q \in QueryParams : SeqGetQuery(r, q)
  \/ \E r \in Reqs, body \in Bodies : SeqPostRoot(r, body)
  \/ \E r \in Reqs : StartRun(r)
  \/ \E r \in Reqs : LlmReject(r)
  \/ \E r \in Reqs, key \in UpdateKeys, value \in Vals : AgentUpdate(r, key, value)
  \/ \E r \in Reqs : AgentError(r)
  \/ \E r \in Reqs : AgentRetry(r)
  \/ \E r \in Reqs, value \in Vals : AgentPartialUpdate(r, value)
  \/ \E r \in Reqs : AgentAddMessage(r)
  \/ \E r \in Reqs, result \in Vals : RunResolve(r, result)
  \/ \E r \in Reqs : RunReject(r)

SpecSeq == Init /\ [][NextSeq]_vars

\* ------------------------------------------------ ReminderTool._run
\* The steps of one invocation t are the stretches of _run between two
\* awaits; tpc[t] names what the invocation is waiting for.
CountQuery == "SELECT COUNT(*) as total FROM reminders;"
SelectAllQuery == "SELECT * FROM reminders;"
GeneratedQuery == "generated.query"

Size(tbl) == Cardinality(DOMAIN tbl)

\* _run from its entry to its first await: the empty-input return, the
\* COUNT query of an instruction that mentions "add", or the
\* classification call.
ToolRun(t, text) ==
  /\ tpc[t] = "idle"
  /\ instr' = [instr EXCEPT ![t] = text]
  /\ IF IsEmptyInput(text)
       THEN /\ tpc' = [tpc EXCEPT ![t] = "returned"]
            /\ tresult' = [tresult EXCEPT ![t] = NoInputText]
            /\ UNCHANGED <<queries, llmCalls>>
       ELSE IF MentionsAdd(text)
         THEN /\ tpc' = [tpc EXCEPT ![t] = "count"]
              /\ queries' = [queries EXCEPT ![t] = Append(@, CountQuery)]
              /\ UNCHANGED <<tresult, llmCalls>>
         ELSE /\ tpc' = [tpc EXCEPT ![t] = "classify"]
              /\ llmCalls' = [llmCalls EXCEPT ![t] = @ + 1]
              /\ UNCHANGED <<tresult, queries>>
  /\ UNCHANGED <<store, nextId, total, lastOut, validId, stmt>>
  /\ UNCHANGED <<httpVars, flightVars>>

\* The COUNT query resolves: the capacity check, then the warning or the
\* classification call.
CountResolve(t) ==
  /\ tpc[t] = "count"
  /\ total' = [total EXCEPT ![t] = Size(store)]
  /\ IF AtCapacity(Size(store))
       THEN /\ tpc' = [tpc EXCEPT ![t] = "returned"]
            /\ tresult' = [tresult EXCEPT ![t] = TooManyText]
            /\ UNCHANGED llmCalls
       ELSE /\ tpc' = [tpc EXCEPT ![t] = "classify"]
            /\ llmCalls' = [llmCalls EXCEPT ![t] = @ + 1]
            /\ UNCHANGED tresult
  /\ UNCHANGED <<store, nextId, instr, lastOut, validId, stmt, queries>>
  /\ UNCHANGED <<httpVars, flightVars>>

\* llmParse.create resolves: the SELECT * query is issued.
ClassifyResolve(t) ==
  /\ tpc[t] = "classify"
  /\ tpc' = [tpc EXCEPT ![t] = "read"]
  /\ queries' = [queries EXCEPT ![t] = Append(@, SelectAllQuery)]
  /\ UNCHANGED <<store, nextId, instr, total, lastOut, validId, stmt, tresult, llmCalls>>
  /\ UNCHANGED <<httpVars, flightVars>>

\* The SELECT * query resolves: the validation call is made.
ReadResolve(t) ==
  /\ tpc[t] = "read"
  /\ tpc' = [tpc EXCEPT ![t] = "validate"]
  /\ llmCalls' = [llmCalls EXCEPT ![t] = @ + 1]
  /\ UNCHANGED <<store, nextId, instr, total, lastOut, validId, stmt, tresult, queries>>
  /\ UNCHANGED <<httpVars, flightVars>>

\* llmFix.create resolves with out: the regex, JSON.parse, then
\* generateQuery up to its model call.
ValidateResolve(t, out) ==
  /\ tpc[t] = "validate"
  /\ lastOut' = [lastOut EXCEPT ![t] = [stage |-> "validate", text |-> out.text]]
  /\ IF JsonParseThrows(ExtractJson(out.text))
       THEN /\ tpc' = [tpc EXCEPT ![t] = "rejected"]
            /\ tresult' = [tresult EXCEPT ![t] = "SyntaxError"]
            /\ UNCHANGED <<validId, llmCalls>>
       ELSE /\ tpc' = [tpc EXCEPT ![t] = "generate"]
            /\ validId' = [validId EXCEPT ![t] = out.validId]
            /\ llmCalls' = [llmCalls EXCEPT ![t] = @ + 1]
            /\ UNCHANGED tresult
  /\ UNCHANGED <<store, nextId, instr, total, stmt, queries>>
  /\ UNCHANGED <<httpVars, flightVars>>

\* The model call of generateQuery resolves with out: the regex,
\* JSON.parse, then the generated statement is issued.
GenerateResolve(t, out) ==
  /\ tpc[t] = "generate"
  /\ lastOut' = [lastOut EXCEPT ![t] = [stage |-> "generate", text |-> out.text]]
  /\ IF JsonParseThrows(ExtractJson(out.text))
       THEN /\ tpc' = [tpc EXCEPT ![t] = "rejected"]
            /\ tresult' = [tresult EXCEPT ![t] = "SyntaxError"]
            /\ UNCHANGED <<stmt, queries>>
       ELSE /\ tpc' = [tpc EXCEPT ![t] = "execute"]
            /\ stmt' = [stmt EXCEPT ![t] = out.stmt]
            /\ queries' = [queries EXCEPT ![t] = Append(@, GeneratedQuery)]
            /\ UNCHANGED tresult
  /\ UNCHANGED <<store, nextId, instr, total, validId, llmCalls>>
  /\ UNCHANGED <<httpVars, flightVars>>

\* The database runs the generated statement and its callback fires: an
\* error rejects with ToolInputValidationError, otherwise the
\* confirmation call is made.
ExecuteResolve(t) ==
  /\ tpc[t] = "execute"
  /\ LET db == Execute(stmt[t], store, nextId) IN
       /\ store' = db.store
       /\ nextId' = db.nextId
  /\ IF stmt[t].kind = "invalid"
       THEN /\ tpc' = [tpc EXCEPT ![t] = "rejected"]
            /\ tresult' = [tresult EXCEPT ![t] = "ToolInputValidationError"]
            /\ UNCHANGED llmCalls
       ELSE /\ tpc' = [tpc EXCEPT ![t] = "confirm"]
            /\ llmCalls' = [llmCalls EXCEPT ![t] = @ + 1]
            /\ UNCHANGED tresult
  /\ UNCHANGED <<instr, total, lastOut, validId, stmt, queries>>
  /\ UNCHANGED <<httpVars, flightVars>>

\* llmResponse.create resolves: _run returns the confirmation.
ConfirmResolve(t) ==
  /\ tpc[t] = "confirm"
  /\ tpc' = [tpc EXCEPT ![t] = "returned"]
  /\ tresult' = [tresult EXCEPT ![t] = ConfirmationText]
  /\ UNCHANGED <<store, nextId, instr, total, lastOut, validId, stmt, queries, llmCalls>>
  /\ UNCHANGED <<httpVars, flightVars>>

\* A model call rejects: _run rejects with the model's error.
ModelReject(t) ==
  /\ tpc[t] \in {"classify", "validate", "generate", "confirm"}
  /\ tpc' = [tpc EXCEPT ![t] = "rejected"]
  /\ tresult' = [tresult EXCEPT ![t] = "ChatModelError"]
  /\ UNCHANGED <<store, nextId, instr, total, lastOut, validId, stmt, queries, llmCalls>>
  /\ UNCHANGED <<httpVars, flightVars>>

\* The table when the invocations begin: empty, one below the limit, or
\* at the limit.
InitTool ==
  /\ ServerIdle /\ onUnhandled = "exit"
  /\ FlightIdle
  /\ \E n \in {0, maxReminders - 1, maxReminders} :
       /\ store = Table(n)
       /\ nextId = n + 1
  /\ tpc = [t \in Calls |-> "idle"]
  /\ instr = [t \in Calls |-> <<>>]
  /\ total = [t \in Calls |-> NoTotal]
  /\ lastOut = [t \in Calls |-> NoOut]
  /\ validId = [t \in Calls |-> NoId]
  /\ stmt = [t \in Calls |-> NoStmt]
  /\ tresult = [t \in Calls |-> "none"]
  /\ queries = [t \in Calls |-> <<>>]
  /\ llmCalls = [t \in Calls |-> 0]

NextTool ==
  \/ \E t \in Calls, text \in Instructions : ToolRun(t, text)
  \/ \E t \in Calls : CountResolve(t)
  \/ \E t \in Calls : ClassifyResolve(t)
  \/ \E t \in Calls : ReadResolve(t)
  \/ \E t \in Calls, out \in ValidationOutputs : ValidateResolve(t, out)
  \/ \E t \in Calls, out \in GenerationOutputs : GenerateResolve(t, out)
  \/ \E t \in Calls : ExecuteResolve(t)
  \/ \E t \in Calls : ConfirmResolve(t)
  \/ \E t \in Calls : ModelReject(t)

\* Invocations that overlap: the agent may call the tool again while an
\* earlier call is still awaiting.
SpecTool == InitTool /\ [][NextTool]_vars

\* Invocations one after another: a call starts only when every earlier
\* one has returned or rejected.
ToolQuiet == \A u \in Calls : tpc[u] \in {"idle", "returned", "rejected"}

SeqToolRun(t, text) == ToolQuiet /\ ToolRun(t, text)

NextToolSeq ==
  \/ \E t \in Calls, text \in Instructions : SeqToolRun(t, text)
  \/ \E t \in Calls : CountResolve(t)
  \/ \E t \in Calls : ClassifyResolve(t)
  \/ \E t \in Calls : ReadResolve(t)
  \/ \E t \in Calls, out \in ValidationOutputs : ValidateResolve(t, out)
  \/ \E t \in Calls, out \in GenerationOutputs : GenerateResolve(t, out)
  \/ \E t \in Calls : ExecuteResolve(t)
  \/ \E t \in Calls : ConfirmResolve(t)
  \/ \E t \in Calls : ModelReject(t)

SpecToolSeq == InitTool /\ [][NextToolSeq]_vars

\* --------------------------------------------- FlightCostLookupTool._run
CostURL ==
  "https://backend-lm-agent-lm-agent.pubfed4-ocp-7e584e106e8632fde4ff5d99d5f27ba6-0000.us-south.containers.appdomain.cloud/cost"

currency == "USD"

\* Inputs that pass inputSchema: three strings and four numbers.
FlightInputs ==
  [departure_airport_code : {"JFK", "LHR"},
   arrival_airport_code : {"LHR", "CDG"},
   departure_date : {"2025-01-01", "2025-01-02"},
   number_of_adults : {1, 2},
   number_of_children : {0, 1},
   number_of_infants : {0, 2},
   cabin_class : {1, 3}]

\* What the cost service may answer with.
FlightData == {"itineraries", "no flights"}

\* Array.prototype.join writes a number in decimal; the URL is kept as
\* the sequence of its segments, which join separates with "/".
\* A URL that puts the arrival airport before the departure airport.
ApiURLSwapped(in) ==
  <<CostURL, in.arrival_airport_code, in.departure_airport_code,
    in.departure_date, ToString(in.number_of_adults),
    ToString(in.number_of_children), ToString(in.number_of_infants),
    ToString(in.cabin_class), currency>>

\* const apiURL = [...].join("/")
ApiURL(in) ==
  <<CostURL, in.departure_airport_code, in.arrival_airport_code,
    in.departure_date, ToString(in.number_of_adults),
    ToString(in.number_of_children), ToString(in.number_of_infants),
    ToString(in.cabin_class), currency>>

\* _run up to its await: the URL is built and axios.get is called.
FlightRun ==
  /\ fpc = "idle"
  /\ fpc' = "get"
  /\ gets' = Append(gets, ApiURL(finput))
  /\ UNCHANGED <<finput, fresult>>
  /\ UNCHANGED <<httpVars, toolVars>>

\* axios.get resolves: _run returns JSONToolOutput(response.data).
AxiosResolve(data) ==
  /\ fpc = "get"
  /\ fpc' = "returned"
  /\ fresult' = [kind |-> "JSONToolOutput", value |-> data]
  /\ UNCHANGED <<finput, gets>>
  /\ UNCHANGED <<httpVars, toolVars>>

\* axios.get rejects: the catch block throws ToolInputValidationError.
AxiosReject ==
  /\ fpc = "get"
  /\ fpc' = "rejected"
  /\ fresult' = [kind |-> "ToolInputValidationError",
                 value |-> "Invalid input or data fetch failed."]
  /\ UNCHANGED <<finput, gets>>
  /\ UNCHANGED <<httpVars, toolVars>>

InitFlight ==
  /\ ServerIdle /\ onUnhandled = "exit"
  /\ ToolsIdle
  /\ fpc = "idle"
  /\ finput \in FlightInputs
  /\ gets = <<>>
  /\ fresult = [kind |-> "none", value |-> ""]

NextFlight ==
  \/ FlightRun
  \/ \E data \in FlightData : AxiosResolve(data)
  \/ AxiosReject

SpecFlight == InitFlight /\ [][NextFlight]_vars

\* ------------------------------------------------- vocabulary of claims
Wire(r) == res[r].wire

Settled(r) == pc[r] \in {"done", "failed"}

DoneCount(w) == Cardinality({i \in DOMAIN w : w[i].kind = "done"})

\* w is data frames followed by exactly one [DONE] frame.
TerminatedOnce(w) ==
  /\ Len(w) >= 1
  /\ w[Len(w)].kind = "done"
  /\ DoneCount(w) = 1
  /\ \A i \in 1..(Len(w) - 1) : w[i].kind = "data"

IsStepEvent(ev) ==
  ev.type = "update" /\ ev.key \in {"thought", "tool_name", "tool_input", "tool_output"}

IsSilentEvent(ev) == ev.type \in {"error", "retry", "partialUpdate"}

StepEvents(evs) == SelectSeq(evs, IsStepEvent)

IsStepFrame(c) == c.kind = "data" /\ c.object = "thread.run.step.delta"

StepFrames(w) == SelectSeq(w, IsStepFrame)

\* The frame section 6 of the specification gives for a step event.
ExpectedFrame(ev) ==
  [kind |-> "data", object |-> "thread.run.step.delta",
   content |-> CASE ev.key = "thought" -> ThoughtText(ev.value)
                 [] ev.key = "tool_name" -> ToolNameText(ev.value)
                 [] ev.key = "tool_input" -> ToolInputText(ev.value)
                 [] ev.key = "tool_output" -> ToolOutputText(ev.value)]

ExpectedFrames(evs) == [i \in DOMAIN evs |-> ExpectedFrame(evs[i])]

\* ----------------------------------------------------------------- C1
\* C1 (as stated): every GET /query with a non-empty q whose handler has
\* finished wrote data frames followed by exactly one [DONE] frame and
\* ended the response.
C1_Claim ==
  \A r \in Reqs :
    (route[r] = "GET" /\ input[r] \notin {NoQ, ""} /\ Settled(r))
      => (TerminatedOnce(Wire(r)) /\ res[r].state = "ended")

\* ----------------------------------------------------------------- C2
\* C2 (as stated): on both routes, a response on which at least one frame
\* of the event stream was written and whose handler has finished ends with
\* exactly one [DONE] frame, also when the run rejected.
C2_Claim ==
  \A r \in Reqs :
    (Settled(r) /\ \E i \in DOMAIN Wire(r) : Wire(r)[i].kind = "data")
      => TerminatedOnce(Wire(r))

\* ----------------------------------------------------------------- C3
\* C3 (as stated): once the agent run of a request has rejected and the
\* route handler has finished, the response was ended by a terminal error
\* response.
C3_Claim ==
  \A r \in Reqs :
    (outcome[r] = "rejected" /\ Settled(r))
      => /\ res[r].state = "ended"
         /\ Len(Wire(r)) >= 1
         /\ Wire(r)[Len(Wire(r))].kind \in {"json", "html"}

\* ----------------------------------------------------------------- C4
\* C4: a GET /query whose q is missing or empty is answered by exactly one
\* HTTP 400 JSON body {error}; no frame and no [DONE] is written; the
\* handler is finished at once, so handleQueryMain is never entered for it
\* (it is never waiting for the chat model nor running an agent, it
\* receives no event and adds nothing to the memory).
C4_Missing400 ==
  \A r \in Reqs :
    (route[r] = "GET" /\ input[r] \in {NoQ, ""})
      => /\ pc[r] = "done"
         /\ outcome[r] = "invalid"
         /\ res[r].sentStatus = 400
         /\ res[r].state = "ended"
         /\ Wire(r) = <<[kind |-> "json", object |-> "",
                         content |-> <<"error", "Missing query parameter \"q\"">>]>>
         /\ events[r] = <<>>
         /\ nAdded[r] = 0
         /\ query[r] = <<>>

C4_Witness ==
  \E r, s \in Reqs :
    /\ route[r] = "GET" /\ input[r] = "" /\ res[r].sentStatus = 400
    /\ route[s] = "GET" /\ input[s] = NoQ /\ res[s].sentStatus = 400

\* ----------------------------------------------------------------- C5
\* C5 (as stated): when handleQueryMain fails during a GET /query, the
\* client receives status 500 and a JSON body {error}, wherever the failure
\* happens.
C5_Claim ==
  \A r \in Reqs :
    (route[r] = "GET" /\ outcome[r] \in {"rejected", "noLlm"} /\ Settled(r))
      => /\ res[r].sentStatus = 500
         /\ Len(Wire(r)) >= 1
         /\ Wire(r)[Len(Wire(r))].kind = "json"

\* ----------------------------------------------------------------- C6
\* C6: in every state, the step frames on a request's response are the
\* frames of the step events its handlers received, one frame per event, in
\* the order of reception.
C6_FrameOrder ==
  \A r \in Reqs : StepFrames(Wire(r)) = ExpectedFrames(StepEvents(events[r]))

C6_Witness ==
  \E r \in Reqs :
    /\ Len(events[r]) = 2
    /\ events[r][1].type = "update" /\ events[r][1].key = "tool_output"
    /\ events[r][2].type = "update" /\ events[r][2].key = "thought"
    /\ Len(Wire(r)) = 2

\* ----------------------------------------------------------------- C7
\* C7: after a successful run the response holds one frame labelled
\* thread.run.step.delta per step event, then one frame labelled
\* thread.message.delta for the final answer, then one [DONE] frame, and
\* nothing else.
C7_FrameCount ==
  \A r \in Reqs :
    outcome[r] = "resolved" =>
      LET n == Len(StepEvents(events[r]))
          w == Wire(r)
      IN /\ Len(w) = n + 2
         /\ \A i \in 1..n : w[i].kind = "data" /\ w[i].object = "thread.run.step.delta"
         /\ w[n + 1].kind = "data" /\ w[n + 1].object = "thread.message.delta"
         /\ w[n + 2].kind = "done"

C7_Witness ==
  \E r \in Reqs :
    /\ outcome[r] = "resolved"
    /\ Len(events[r]) = 2
    /\ events[r][1].type = "update" /\ events[r][1].key = "tool_input"
    /\ events[r][2].type = "update" /\ events[r][2].key = "final_answer"
    /\ Len(Wire(r)) = 3

\* ----------------------------------------------------------------- C8
\* C8: a step in which a request receives an error, retry or partialUpdate
\* event changes no response object.
C8_SilentEvents ==
  [][\A r \in Reqs :
       (/\ Len(events'[r]) = Len(events[r]) + 1
        /\ IsSilentEvent(events'[r][Len(events'[r])]))
         => res' = res]_vars

C8_Witness ==
  \E r \in Reqs :
    /\ Len(events[r]) = 2
    /\ IsStepEvent(events[r][1])
    /\ IsSilentEvent(events[r][2])
    /\ Len(Wire(r)) = 1

\* ----------------------------------------------------------------- C9
\* C9: when requests are processed one after the other, a running agent's
\* memory holds exactly the messages its own run has added: it is empty
\* when the run starts and never holds a message of an earlier request.
C9_SequentialIsolation ==
  \A r \in Reqs :
    pc[r] = "running" =>
      /\ Len(memory) = nAdded[r]
      /\ \A i \in DOMAIN memory : memory[i] = r

C9_Witness ==
  \E r, s \in Reqs :
    /\ s # r
    /\ Settled(s) /\ nAdded[s] > 0
    /\ pc[r] = "running" /\ nAdded[r] = 0 /\ memory = <<>>

\* ---------------------------------------------------------------- C10
\* C10: the memory is one object shared by all requests: the reset at the
\* start of any run empties it whatever the other runs have added, and a
\* message added by a run is appended to whatever the others have added.
\* The witness is a state in which both corruptions of the claim have
\* happened to a run in progress.
C10_SharedMemory ==
  [][\A r \in Reqs :
       /\ (pc[r] = "llm" /\ pc'[r] = "running") => memory' = <<>>
       /\ nAdded'[r] = nAdded[r] + 1 => memory' = Append(memory, r)]_vars

C10_Witness ==
  \E r, s \in Reqs :
    /\ s # r
    /\ pc[r] = "running" /\ pc[s] = "running"
    /\ nAdded[r] > 0
    /\ \A i \in DOMAIN memory : memory[i] # r
    /\ \E i \in DOMAIN memory : memory[i] = s

\* ---------------------------------------------------------------- C16
\* C16: a final-answer frame is on a response only when that request's
\* run has resolved, and the response of a resolved run is its step
\* frames, then the final-answer frame, then [DONE]: the final-answer
\* frame comes after every step frame and is the last data frame before
\* [DONE], and no step frame follows it.
IsFinalFrame(c) == c.kind = "data" /\ c.object = "thread.message.delta"

C16_FinalFrameLast ==
  \A r \in Reqs :
    /\ (\E i \in DOMAIN Wire(r) : IsFinalFrame(Wire(r)[i])) => outcome[r] = "resolved"
    /\ outcome[r] = "resolved" =>
         LET w == Wire(r) IN
           /\ Len(w) >= 2
           /\ w[Len(w)].kind = "done"
           /\ IsFinalFrame(w[Len(w) - 1])
           /\ \A i \in 1..(Len(w) - 2) : IsStepFrame(w[i])

C16_Witness ==
  \E r, s \in Reqs :
    /\ route[r] = "GET" /\ route[s] = "POST"
    /\ outcome[r] = "resolved" /\ outcome[s] = "resolved"
    /\ Len(Wire(r)) = 3 /\ IsStepFrame(Wire(r)[1]) /\ IsFinalFrame(Wire(r)[2])
    /\ Len(Wire(s)) = 3 /\ IsStepFrame(Wire(s)[1]) /\ IsFinalFrame(Wire(s)[2])

\* ---------------------------------------------------------------- C18
\* C18: frames are written only to the response of the request they
\* belong to: whenever the frames of a response change, it is that
\* request's agent that emitted an event, or that request's handler that
\* finished, in the same step; and a step in which the agent of request r
\* emits a step event adds one frame to r's response.
C18_OwnResponse ==
  [][\A s \in Reqs :
       /\ Wire(s)' # Wire(s) =>
            \/ events'[s] # events[s]
            \/ pc'[s] # pc[s] /\ pc'[s] \in {"done", "failed"}
       /\ (events'[s] # events[s] /\ IsStepEvent(events'[s][Len(events'[s])])) =>
            Len(Wire(s)') = Len(Wire(s)) + 1]_vars

C18_Witness ==
  \E r, s \in Reqs :
    /\ s # r
    /\ pc[r] = "running" /\ pc[s] = "running"
    /\ Len(StepFrames(Wire(r))) = 1 /\ Len(StepFrames(Wire(s))) = 1

\* ---------------------------------------------------------------- C15
\* C15: an invocation that has started has issued exactly one GET, to the
\* cost URL followed by departure airport, arrival airport, date, adults,
\* children, infants, cabin class and USD, in that order; if the GET
\* failed it ended with ToolInputValidationError and still one GET, and if
\* it succeeded it returned the response data.
C15_OneGet ==
  /\ fpc = "idle" => gets = <<>>
  /\ fpc # "idle" =>
       /\ Len(gets) = 1
       /\ Len(gets[1]) = 9
       /\ gets[1][1] = CostURL
       /\ gets[1][2] = finput.departure_airport_code
       /\ gets[1][3] = finput.arrival_airport_code
       /\ gets[1][4] = finput.departure_date
       /\ gets[1][5] = ToString(finput.number_of_adults)
       /\ gets[1][6] = ToString(finput.number_of_children)
       /\ gets[1][7] = ToString(finput.number_of_infants)
       /\ gets[1][8] = ToString(finput.cabin_class)
       /\ gets[1][9] = "USD"
  /\ fpc = "rejected" => fresult.kind = "ToolInputValidationError"
  /\ fpc = "returned" => fresult.kind = "JSONToolOutput" /\ fresult.value \in FlightData
  /\ fpc \in {"idle", "get"} => fresult.kind = "none"

C15_Witness ==
  /\ fpc = "rejected"
  /\ fresult.kind = "ToolInputValidationError"
  /\ Len(gets) = 1
  /\ finput.departure_airport_code # finput.arrival_airport_code

\* ---------------------------------------------------------------- C20
\* C20: the step that starts an invocation with an empty instruction
\* returns the "No input was found" output in that same step, with no
\* query issued, no model call made and the store as it was; and an
\* invocation that has returned does nothing more.
C20_EmptyInput ==
  [][\A t \in Calls :
       /\ (tpc[t] = "idle" /\ tpc'[t] # "idle" /\ instr'[t] = <<>>) =>
            /\ tpc'[t] = "returned"
            /\ tresult'[t] = "No input was found, nothing was done."
            /\ queries'[t] = <<>>
            /\ llmCalls'[t] = 0
            /\ store' = store /\ nextId' = nextId
       /\ tpc[t] = "returned" =>
            /\ tpc'[t] = "returned"
            /\ queries'[t] = queries[t] /\ llmCalls'[t] = llmCalls[t]]_vars

C20_Witness ==
  \E t \in Calls :
    /\ tpc[t] = "returned" /\ instr[t] = <<>>
    /\ tresult[t] = NoInputText
    /\ queries[t] = <<>> /\ llmCalls[t] = 0
    /\ Size(store) = maxReminders

\* ---------------------------------------------------------------- C17
\* C17: the COUNT query of the capacity check is issued exactly by the
\* step that starts an invocation whose text contains "add" in any
\* letter case; and when that query finds 10 or more reminders the
\* invocation returns the warning having issued that one query only, made
\* no model call and generated no statement, with the store as it was.
ContainsAddAnyCase(text) ==
  \E i \in 1..(Len(text) - 2) :
    /\ text[i] \in {"a", "A"}
    /\ text[i + 1] \in {"d", "D"}
    /\ text[i + 2] \in {"d", "D"}

C17_CapacityCheck ==
  [][\A t \in Calls :
       /\ (tpc[t] = "idle" /\ tpc'[t] # "idle") =>
            (tpc'[t] = "count" <=> ContainsAddAnyCase(instr'[t]))
       /\ (queries'[t] # queries[t] /\ queries'[t][Len(queries'[t])] = CountQuery) <=>
            (tpc[t] = "idle" /\ tpc'[t] # "idle" /\ ContainsAddAnyCase(instr'[t]))
       /\ (tpc[t] = "count" /\ tpc'[t] # "count" /\ Size(store) >= 10) =>
            /\ tpc'[t] = "returned"
            /\ tresult'[t] = TooManyText
            /\ queries'[t] = <<CountQuery>>
            /\ llmCalls'[t] = 0
            /\ stmt'[t] = NoStmt
            /\ store' = store /\ nextId' = nextId]_vars

C17_Witness ==
  \E t, u \in Calls :
    /\ instr[t] = <<"d", "e", "l", "A", "d", "d">>
    /\ tpc[t] = "returned" /\ tresult[t] = TooManyText
    /\ queries[t] = <<CountQuery>> /\ llmCalls[t] = 0
    /\ instr[u] = <<"n", "e", "w">>
    /\ tpc[u] # "idle" /\ queries[u] # <<>> /\ queries[u][1] # CountQuery

\* ---------------------------------------------------------------- C12
\* C12 (as stated): with invocations one after another, the store never
\* holds more than 10 reminders: no INSERT runs at a store of 10.
C12_Claim == Size(store) <= 10

\* ---------------------------------------------------------------- C13
\* C13: an invocation whose text mentions "add" and that is past the
\* capacity check read a count below 10, whatever the store holds by the
\* time its statement runs: nothing ties the count it read to the insert.
\* The witness is the race: the store held 9, both invocations read 9,
\* both inserted, and the store holds 11.
Inserted(t) == stmt[t].kind = "insert" /\ tpc[t] # "execute"

C13_CheckThenInsert ==
  \A t \in Calls :
    (MentionsAdd(instr[t]) /\ tpc[t] \notin {"idle", "count"}) =>
      /\ total[t] # NoTotal
      /\ tresult[t] # TooManyText => total[t] < 10
      /\ tresult[t] = TooManyText => (total[t] >= 10 /\ stmt[t] = NoStmt)

C13_Witness ==
  \E t, u \in Calls :
    /\ t # u
    /\ MentionsAdd(instr[t]) /\ MentionsAdd(instr[u])
    /\ total[t] = 9 /\ total[u] = 9
    /\ Inserted(t) /\ Inserted(u)
    /\ Size(store) = 11

\* ---------------------------------------------------------------- C14
\* C14 (as stated): an invocation whose validation or generation output
\* holds no balanced JSON object, or one that does not parse, has failed
\* with ToolInputValidationError.
C14_Claim ==
  \A t \in Calls :
    (lastOut[t].stage \in {"validate", "generate"} /\ lastOut[t].text \in BadTexts) =>
      (tpc[t] = "rejected" /\ tresult[t] = "ToolInputValidationError")

\* ---------------------------------------------------------------- C19
\* C19: an invocation whose validation or generation output failed to
\* parse is rejected in that step without having generated or issued a
\* statement, and the store changes only in a step in which an invocation
\* whose outputs parsed has its generated statement run.
C19_NoExecution ==
  [][/\ \A t \in Calls :
          lastOut'[t].text \in BadTexts =>
            /\ tpc'[t] = "rejected"
            /\ stmt'[t] = NoStmt
            /\ \A i \in DOMAIN queries'[t] : queries'[t][i] # GeneratedQuery
     /\ (store' # store \/ nextId' # nextId) =>
          \E u \in Calls :
            /\ tpc[u] = "execute" /\ tpc'[u] # "execute"
            /\ lastOut[u].text \in GoodTexts
            /\ queries[u][Len(queries[u])] = GeneratedQuery]_vars

C19_Witness ==
  \E t, u \in Calls :
    /\ lastOut[t].stage = "validate" /\ lastOut[t].text = <<"{", "x", "}">>
    /\ lastOut[u].stage = "generate" /\ lastOut[u].text = <<"{", "v">>
    /\ tpc[t] = "rejected" /\ tpc[u] = "rejected"
    /\ queries[t] = <<SelectAllQuery>> /\ queries[u] = <<CountQuery, SelectAllQuery>>
    /\ store = Table(maxReminders - 1)

====
